---- MODULE Spec2Model ----
(***************************************************************************)
(* AnimTycoon: business calendar, resource pool and the discrete-event     *)
(* production simulator (one process per scheduled item).                  *)
(*                                                                         *)
(* Timestamps (Python datetime values) are integers counting seconds from  *)
(* a Monday 00:00.  The simulated clock env.now is a number that the       *)
(* simulator reads as days (timedelta(days=env.now)).                      *)
(***************************************************************************)
EXTENDS Integers, Sequences, FiniteSets, TLC

\* ----------------------------------------------------------------- bounds
MaxRes == 2        \* Resource objects created by add_resource calls (pool API phase)
MaxCalls == 2      \* direct allocate_resource / assign_work calls (pool API phase)
MaxItems == 2      \* items handed to schedule_production
MaxTeam == 1       \* size of the modelling team registered at launch
MaxRuns == 2       \* simulator constructions (runs) on the same inputs

\* -------------------------------------------------------------- constants
DaySeconds == 86400          \* timedelta(days=1) in seconds
Capacity == 8                \* daily capacity of a resource, in hours
HoursToDays == 24            \* factor of the hold time of a stage
StallDelay == 1              \* retry delay after an unresolved conflict

None == "None"

\* weekdays: 0 = Monday ... 6 = Sunday (datetime.weekday())
weekday(date) == (date \div DaySeconds) % 7

Monday == 0 * DaySeconds
Tuesday == DaySeconds
Saturday == 5 * DaySeconds

\* ------------------------------------------------------ BusinessCalendar
\* BusinessCalendar("Studio Calendar"): Mon-Fri, no holidays, no vacations
StudioCalendar ==
    [work_days |-> {0, 1, 2, 3, 4}, holidays |-> {}, vacations |-> <<>>]

\* a calendar with a holiday and a closed vacation interval
HolidayCalendar ==
    [work_days |-> {0, 1, 2, 3, 4}, holidays |-> {Tuesday},
     vacations |-> << <<2 * DaySeconds, 3 * DaySeconds>> >>]

Calendars == {StudioCalendar, HolidayCalendar}

in_interval_half_open(date, ivs) ==
    \E i \in DOMAIN ivs : ivs[i][1] <= date /\ date < ivs[i][2]

\* for start, end in self.vacations: start <= date <= end
in_interval(date, ivs) ==
    \E i \in DOMAIN ivs : ivs[i][1] <= date /\ date <= ivs[i][2]

is_workday(cal, date) ==
    /\ weekday(date) \in cal.work_days
    /\ date \notin cal.holidays
    /\ ~in_interval(date, cal.vacations)

\* --------------------------------------------------------------- Resource
\* dict.get(key, 0)
get(d, key) == IF key \in DOMAIN d THEN d[key] ELSE 0

\* d[key] = value
put(d, key, value) ==
    [k \in DOMAIN d \cup {key} |-> IF k = key THEN value ELSE d[k]]

EmptyDict == [k \in {} |-> 0]

NewResource(name, resource_type) ==
    [name |-> name, resource_type |-> resource_type,
     assigned_hours |-> EmptyDict, vacations |-> <<>>]

is_available_ignoring_request(res, cal, date, required_hours) ==
    /\ is_workday(cal, date)
    /\ ~in_interval(date, res.vacations)
    /\ get(res.assigned_hours, date) <= Capacity

is_available_strict(res, cal, date, required_hours) ==
    /\ is_workday(cal, date)
    /\ ~in_interval(date, res.vacations)
    /\ get(res.assigned_hours, date) + required_hours < Capacity

\* Resource.is_available
is_available(res, cal, date, required_hours) ==
    /\ is_workday(cal, date)
    /\ ~in_interval(date, res.vacations)
    /\ get(res.assigned_hours, date) + required_hours <= Capacity

assign_work_overwriting(res, date, hours) ==
    [res EXCEPT !.assigned_hours = put(res.assigned_hours, date, hours)]

\* the state of the resource after a successful assign_work
assign_work(res, date, hours) ==
    [res EXCEPT !.assigned_hours =
        put(res.assigned_hours, date, get(res.assigned_hours, date) + hours)]

\* ----------------------------------------------------------- ResourcePool
\* self.resources_by_type.get(resource_type, [])
bucket(by_type, resource_type) ==
    IF resource_type \in DOMAIN by_type THEN by_type[resource_type] ELSE <<>>

\* positions of the bucket whose resource is available
available_positions(hp, bkt, cal, date, hours) ==
    {i \in DOMAIN bkt : is_available(hp[bkt[i]], cal, date, hours)}

set_min(S) == CHOOSE x \in S : \A y \in S : x <= y
set_max(S) == CHOOSE x \in S : \A y \in S : x >= y

scan_last(S) == set_max(S)

\* the for loop returns at the first available resource
scan(S) == set_min(S)

\* allocate_resource: the Resource returned (0 for None) and the new objects
allocate_resource(hp, by_type, cal, resource_type, date, hours) ==
    LET bkt == bucket(by_type, resource_type)
        ok == available_positions(hp, bkt, cal, date, hours)
    IN  IF ok = {}
        THEN [ret |-> 0, heap |-> hp]
        ELSE LET r == bkt[scan(ok)]
             IN  [ret |-> r,
                  heap |-> [hp EXCEPT ![r] = assign_work(hp[r], date, hours)]]

RECURSIVE daily_assigned(_, _, _)

\* for resource in self.resources.values():
\*     daily_assigned += resource.assigned_hours.get(current, 0)
daily_assigned(pool, ids, current) ==
    IF ids = {}
    THEN 0
    ELSE LET id == CHOOSE i \in ids : TRUE
         IN  get(pool.heap[pool.resources[id]].assigned_hours, current)
               + daily_assigned(pool, ids \ {id}, current)

RECURSIVE utilization_totals(_, _, _, _)

\* the loop of get_utilization from the day current on: the capacity and the
\* assigned hours it adds up
utilization_totals(pool, cal, current, end_date) ==
    IF current > end_date
    THEN [total_capacity |-> 0, total_assigned |-> 0]
    ELSE LET rest == utilization_totals(pool, cal, current + DaySeconds, end_date)
         IN  IF is_workday(cal, current)
             THEN [total_capacity |->
                       Len(bucket(pool.resources_by_type, "quota")) * Capacity
                         + rest.total_capacity,
                   total_assigned |->
                       daily_assigned(pool, DOMAIN pool.resources, current)
                         + rest.total_assigned]
             ELSE rest

\* the return value of get_utilization as a fraction <<numerator, denominator>>;
\* a denominator of 0 is a ZeroDivisionError
get_utilization_unguarded(pool, cal, start_date, end_date) ==
    LET t == utilization_totals(pool, cal, start_date, end_date)
    IN  <<t.total_assigned, t.total_capacity>>

\* ResourcePool.get_utilization
get_utilization(pool, cal, start_date, end_date) ==
    LET t == utilization_totals(pool, cal, start_date, end_date)
    IN  IF t.total_capacity # 0
        THEN <<t.total_assigned, t.total_capacity>>
        ELSE <<0, 1>>

\* ------------------------------------------------------------------ state
VARIABLES
    calendar,            \* the BusinessCalendar shared by the pool and its resources
    heap,                \* the Resource objects, in creation order
    resources,           \* ResourcePool.resources: id -> Resource
    resources_by_type,   \* ResourcePool.resources_by_type: type -> list of Resource
    last,                \* the latest call of the pool API and its outcome (navail:
                         \* resources available to it; rep: it repeats the call
                         \* before it, which had exactly one resource available)
    ncalls,              \* direct allocate_resource / assign_work calls so far
    phase,               \* "setup", "running", "stopped" or "crashed"
    current_date,        \* AnimSimulator.current_date (datetime.now() at construction)
    creative_calendar,   \* params.creative_calendar: item -> datetime
    complexity_matrix,   \* params.complexity_matrix: item -> level
    schedule,            \* the items passed to schedule_production, in order
    until,               \* the horizon passed to run
    now,                 \* env.now
    procs,               \* one process_asset generator per scheduled item
    next_eid,            \* the event counter of the environment
    events,              \* AnimSimulator.events
    attempts,            \* every allocate_resource call made by a process (history)
    run_no,              \* simulators constructed so far on these inputs
    prev_events          \* the event list of the previous run on these inputs

pool_vars == <<calendar, heap, resources, resources_by_type, last, ncalls>>
sim_vars == <<current_date, creative_calendar, complexity_matrix, schedule, until,
              now, procs, next_eid, events, attempts, run_no, prev_events>>
vars == <<pool_vars, phase, sim_vars>>

\* --------------------------------------------------------- pool API inputs
ResourceIds == {"m1", "s1"}
ResourceTypes == {"quota", "support"}
PoolDates == {Monday, Saturday}
PoolHours == {4, 5}
VacationRanges == {<<Monday, Tuesday>>}

\* the name the registration code gives to the resource of an id: the ids of
\* _register_resources (m1, m2, l1, l2, a1, a2, a3, s1) and the ids the app
\* forms from its team sizes (m1..m10, l1..l8, a1..a12, s1..s5); the code
\* registers no other id
name_of(id) ==
    CASE id \in {"m1", "m2", "m3", "m4", "m5", "m6", "m7", "m8", "m9", "m10"}
           -> "Modeling Artist"
      [] id \in {"l1", "l2", "l3", "l4", "l5", "l6", "l7", "l8"}
           -> "Layout Artist"
      [] id \in {"a1", "a2", "a3", "a4", "a5", "a6", "a7", "a8", "a9", "a10", "a11", "a12"}
           -> "Animation Artist"
      [] id \in {"s1", "s2", "s3", "s4", "s5"}
           -> "Support Technician"
      [] OTHER -> None

NoCall ==
    [op |-> "none", key |-> None, date |-> 0, hours |-> 0, ret |-> 0,
     err |-> None, navail |-> 0, rep |-> FALSE]

\* ResourcePool.add_resource
add_resource(pool, resource_id, name, resource_type) ==
    LET r == Len(pool.heap) + 1
    IN  [heap |-> Append(pool.heap, NewResource(name, resource_type)),
         resources |-> put(pool.resources, resource_id, r),
         resources_by_type |->
             put(pool.resources_by_type, resource_type,
                 Append(bucket(pool.resources_by_type, resource_type), r)),
         ret |-> r]

EmptyPool == [heap |-> <<>>, resources |-> EmptyDict, resources_by_type |-> EmptyDict]

ThePool == [heap |-> heap, resources |-> resources,
            resources_by_type |-> resources_by_type]

Init ==
    /\ calendar \in Calendars
    /\ heap = <<>>
    /\ resources = EmptyDict
    /\ resources_by_type = EmptyDict
    /\ last = NoCall
    /\ ncalls = 0
    /\ phase = "setup"
    /\ current_date = 0
    /\ creative_calendar = EmptyDict
    /\ complexity_matrix = EmptyDict
    /\ schedule = <<>>
    /\ until = 0
    /\ now = 0
    /\ procs = <<>>
    /\ next_eid = 0
    /\ events = <<>>
    /\ attempts = {}
    /\ run_no = 0
    /\ prev_events = <<>>

\* pool.add_resource(resource_id, name, resource_type)
AddResource ==
    /\ phase = "setup"
    /\ Len(heap) < MaxRes
    /\ \E resource_id \in ResourceIds, resource_type \in ResourceTypes :
       LET p == add_resource(ThePool, resource_id, name_of(resource_id), resource_type)
       IN  /\ heap' = p.heap
           /\ resources' = p.resources
           /\ resources_by_type' = p.resources_by_type
           /\ last' = [NoCall EXCEPT !.op = "add_resource", !.key = resource_id,
                                     !.ret = p.ret]
    /\ UNCHANGED <<calendar, ncalls, phase, sim_vars>>

\* resource.add_vacation(start_date, end_date), before any work is assigned
AddVacation ==
    /\ phase = "setup"
    /\ ncalls = 0
    /\ \E r \in DOMAIN heap, range \in VacationRanges :
         /\ Len(heap[r].vacations) = 0
         /\ heap' = [heap EXCEPT ![r].vacations = Append(@, range)]
         /\ last' = [NoCall EXCEPT !.op = "add_vacation", !.ret = r]
    /\ UNCHANGED <<calendar, resources, resources_by_type, ncalls, phase, sim_vars>>

\* pool.allocate_resource(resource_type, date, hours)
AllocateResource ==
    /\ phase = "setup"
    /\ ncalls < MaxCalls
    /\ \E resource_type \in ResourceTypes, date \in PoolDates, hours \in PoolHours :
       LET a == allocate_resource(heap, resources_by_type, calendar,
                                  resource_type, date, hours)
       IN  /\ heap' = a.heap
           /\ last' = [op |-> "allocate_resource", key |-> resource_type,
                       date |-> date, hours |-> hours, ret |-> a.ret, err |-> None,
                       navail |-> Cardinality(available_positions(heap,
                                      bucket(resources_by_type, resource_type),
                                      calendar, date, hours)),
                       rep |-> /\ last.op = "allocate_resource"
                               /\ last.key = resource_type
                               /\ last.date = date
                               /\ last.hours = hours
                               /\ last.navail = 1]
    /\ ncalls' = ncalls + 1
    /\ UNCHANGED <<calendar, resources, resources_by_type, phase, sim_vars>>

\* resource.assign_work(date, hours) on a Resource the caller holds
AssignWork ==
    /\ phase = "setup"
    /\ ncalls < MaxCalls
    /\ \E r \in DOMAIN heap, date \in PoolDates, hours \in PoolHours :
         IF is_available(heap[r], calendar, date, hours)
         THEN /\ heap' = [heap EXCEPT ![r] = assign_work(heap[r], date, hours)]
              /\ last' = [NoCall EXCEPT !.op = "assign_work", !.date = date,
                                        !.hours = hours, !.ret = r]
         ELSE /\ heap' = heap
              /\ last' = [NoCall EXCEPT !.op = "assign_work", !.date = date,
                                        !.hours = hours, !.ret = r,
                                        !.err = "ValueError"]
    /\ ncalls' = ncalls + 1
    /\ UNCHANGED <<calendar, resources, resources_by_type, phase, sim_vars>>

\* ------------------------------------------------- ProductionParameters
\* params.create_workflow("asset_workflow", {...}): the stage table of the app
stages ==
    [modelado |-> [default |-> 3, alta |-> 5, baja |-> 2, resource_type |-> "quota"],
     layout   |-> [default |-> 2, alta |-> 3, baja |-> 1, resource_type |-> "quota"],
     anim     |-> [default |-> 4, alta |-> 8, baja |-> 4, resource_type |-> "quota"]]

\* WorkflowDefinition.stage_order = list(stages.keys())
stage_order == <<"modelado", "layout", "anim">>

\* stage_order.index(stage)
stage_index(stage) == CHOOSE i \in DOMAIN stage_order : stage_order[i] = stage

get_next_stage_backwards(current_stage) ==
    LET idx == stage_index(current_stage)
    IN  IF idx = 1 THEN stage_order[Len(stage_order)]
        ELSE IF idx > 2 THEN stage_order[idx - 1]
        ELSE None

\* WorkflowDefinition.get_next_stage
get_next_stage(current_stage) ==
    LET idx == stage_index(current_stage)
    IN  IF idx < Len(stage_order) THEN stage_order[idx + 1] ELSE None

\* stage_def.get(complexity, stage_def["default"])
bid_hours(stage, complexity) ==
    IF complexity \in DOMAIN stages[stage]
    THEN stages[stage][complexity]
    ELSE stages[stage].default

\* ------------------------------------------------------ simulation inputs
Items == {"asset_caballo", "shot_sec1", "prop_silla"}

\* datetime.now() when the simulator is constructed
NowChoices == {1, 2, 4 * DaySeconds + 1}

CreativeCalendars ==
    {[asset_caballo |-> 2, shot_sec1 |-> 2, prop_silla |-> 2],
     [asset_caballo |-> 2, shot_sec1 |-> 4, prop_silla |-> 1],
     [asset_caballo |-> 4 * DaySeconds + 2, shot_sec1 |-> 4 * DaySeconds + 2,
      prop_silla |-> 4 * DaySeconds + 4],
     [asset_caballo |-> 2, shot_sec1 |-> 2 + stages.modelado.alta * HoursToDays,
      prop_silla |-> 2]}

ComplexityMatrices ==
    {[asset_caballo |-> "alta", shot_sec1 |-> "baja", prop_silla |-> "media"],
     [asset_caballo |-> "alta", shot_sec1 |-> "alta", prop_silla |-> "alta"]}

Horizons == {200, 400}

\* the item lists given to schedule_production: distinct items, in any order
Schedules ==
    {s \in UNION {[1..n -> Items] : n \in 1..MaxItems} :
        \A i, j \in DOMAIN s : i # j => s[i] # s[j]}

\* the team sizes chosen for the four teams of the studio
Teams ==
    [modelado : 0..MaxTeam, layout : 0..1, anim : 0..1, support : 0..1]

RECURSIVE add_team(_, _, _, _, _)
\* for i in range(n): pool.add_resource(f"{prefix}{i+1}", name, resource_type)
add_team(pool, ids, n, name, resource_type) ==
    IF n = 0 THEN pool
    ELSE LET p == add_team(pool, ids, n - 1, name, resource_type)
             q == add_resource(p, ids[n], name, resource_type)
         IN  [heap |-> q.heap, resources |-> q.resources,
              resources_by_type |-> q.resources_by_type]

\* the pool the app registers before it schedules the production
register_resources(team) ==
    LET p1 == add_team(EmptyPool, <<"m1", "m2", "m3">>, team.modelado,
                       "Modeling Artist", "quota")
        p2 == add_team(p1, <<"l1">>, team.layout, "Layout Artist", "quota")
        p3 == add_team(p2, <<"a1">>, team.anim, "Animation Artist", "quota")
    IN  add_team(p3, <<"s1">>, team.support, "Support Technician", "support")

\* ------------------------------------------------------------ AnimSimulator
creative_delay_none(item) == 0

\* (input_date - self.current_date).total_seconds()
creative_delay(item) == creative_calendar[item] - current_date

\* self.current_date + timedelta(days=self.env.now)
timestamp(t) == current_date + t * DaySeconds

\* the delay of the timeout that holds the stage
hold_time(hours) == hours * HoursToDays

\* _get_pending_tasks: sample data
pending_tasks(stage) ==
    <<[asset_id |-> "asset1", priority |-> 1, stage |-> stage],
      [asset_id |-> "asset2", priority |-> 2, stage |-> stage],
      [asset_id |-> "asset3", priority |-> 3, stage |-> stage]>>

\* _solve_min_cost_flow: a fixed assignment
solve_min_cost_flow == [asset1 |-> "m1", asset2 |-> "l1", asset3 |-> "a1"]

\* resolve_conflict: False without pending tasks, True otherwise
resolve_conflict(asset_id, stage) ==
    IF pending_tasks(stage) = <<>> THEN FALSE ELSE TRUE

obtained_always(ret) == TRUE

\* if resource:
obtained(ret) == ret # 0

resource_name(hp, r) == IF r \in DOMAIN hp THEN hp[r].name ELSE None

ProductionEvent_swapped(item_id, stage, start_time, end_time, resource) ==
    [item_id |-> item_id, stage |-> stage, start_time |-> end_time,
     end_time |-> start_time, resource |-> resource,
     duration |-> (start_time - end_time) \div 3600]

\* ProductionEvent(asset_id, current_stage, start, end, resource.name)
ProductionEvent(item_id, stage, start_time, end_time, resource) ==
    [item_id |-> item_id, stage |-> stage, start_time |-> start_time,
     end_time |-> end_time, resource |-> resource,
     duration |-> (end_time - start_time) \div 3600]

NewProcess(item, eid) ==
    [item |-> item, pc |-> "init", stage |-> stage_order[1], wake |-> 0,
     eid |-> eid, start |-> 0, res |-> 0]

RECURSIVE loop_top(_, _, _), after_wait(_, _, _)

\* process_asset from the head of the while loop, at simulated time t, up to
\* its next yield.  A negative delay raises ValueError in the generator: the
\* process fails, and its failure is an event of the queue at time t.  m = [heap, attempts, pr]: the pool objects, the recorded
\* allocation attempts and the process.
loop_top(m, stage, t) ==
    IF stage = None
    THEN [m EXCEPT !.pr.pc = "done", !.pr.stage = None]
    ELSE IF stage = stage_order[1]
    THEN LET d == creative_delay(m.pr.item)
         IN  IF d < 0
             THEN [m EXCEPT !.pr.pc = "failed", !.pr.stage = stage, !.pr.wake = t]
             ELSE [m EXCEPT !.pr.pc = "wait_input", !.pr.stage = stage,
                            !.pr.wake = t + d]
    ELSE after_wait(m, stage, t)

\* process_asset from "Find available resource" up to its next yield
after_wait(m, stage, t) ==
    LET hours == bid_hours(stage, complexity_matrix[m.pr.item])
        start_time == timestamp(t)
        a == allocate_resource(m.heap, resources_by_type, calendar,
                               stages[stage].resource_type, start_time, hours)
        att == m.attempts \cup
                 {[item |-> m.pr.item, stage |-> stage, at |-> start_time,
                   hours |-> hours, ret |-> a.ret]}
    IN  IF obtained(a.ret)
        THEN [heap |-> a.heap, attempts |-> att,
              pr |-> [m.pr EXCEPT !.pc = "hold", !.stage = stage,
                                  !.start = start_time, !.res = a.ret,
                                  !.wake = t + hold_time(hours)]]
        ELSE IF resolve_conflict(m.pr.item, stage)
        THEN loop_top([m EXCEPT !.attempts = att], get_next_stage(stage), t)
        ELSE [m EXCEPT !.attempts = att, !.pr.pc = "stalled", !.pr.stage = stage,
                       !.pr.wake = t + StallDelay]

\* the processes with an event in the queue of the environment
Pending ==
    {p \in DOMAIN procs :
        procs[p].pc \in {"init", "wait_input", "hold", "stalled", "failed"}}

\* queue order: (time, priority, event id); Initialize events are urgent
priority(p) == IF procs[p].pc = "init" THEN 0 ELSE 1

before(p, q) ==
    \/ procs[p].wake < procs[q].wake
    \/ procs[p].wake = procs[q].wake /\ priority(p) < priority(q)
    \/ procs[p].wake = procs[q].wake /\ priority(p) = priority(q)
         /\ procs[p].eid <= procs[q].eid

\* the processes run(until) still resumes: the stop event at `until` is urgent
Runnable == {p \in Pending : procs[p].wake < until}

NextProcess == CHOOSE p \in Runnable : \A q \in Runnable : before(p, q)

\* the app: construct the simulator, replace its pool by a new one with the
\* chosen teams, schedule the items and run.  The pool is built from scratch,
\* so the action is taken from the state after construction.
Launch ==
    /\ phase = "setup"
    /\ last.op = "none"
    /\ \E team \in Teams, sched \in Schedules, cc \in CreativeCalendars,
          cm \in ComplexityMatrices, cd \in NowChoices, horizon \in Horizons :
         /\ LET p == register_resources(team)
            IN  /\ heap' = p.heap
                /\ resources' = p.resources
                /\ resources_by_type' = p.resources_by_type
         /\ current_date' = cd
         /\ creative_calendar' = cc
         /\ complexity_matrix' = cm
         /\ schedule' = sched
         /\ until' = horizon
         /\ procs' = [i \in DOMAIN sched |-> NewProcess(sched[i], i)]
         /\ next_eid' = Len(sched) + 1
    /\ now' = 0
    /\ events' = <<>>
    /\ attempts' = {}
    /\ run_no' = 1
    /\ phase' = "running"
    /\ UNCHANGED <<calendar, last, ncalls, prev_events>>

\* env.step(): the next event of the queue resumes its process; the event of
\* a failed process raises its exception out of run()
Step ==
    /\ phase = "running"
    /\ Runnable # {}
    /\ LET p == NextProcess
           pr == procs[p]
           t == pr.wake
           m0 == [heap |-> heap, attempts |-> attempts, pr |-> pr]
           ev == ProductionEvent(pr.item, pr.stage, pr.start, timestamp(t),
                                 resource_name(heap, pr.res))
           m == CASE pr.pc = "init" -> loop_top(m0, stage_order[1], t)
                  [] pr.pc = "wait_input" -> after_wait(m0, pr.stage, t)
                  [] pr.pc = "hold" -> loop_top(m0, get_next_stage(pr.stage), t)
                  [] pr.pc = "stalled" -> loop_top(m0, pr.stage, t)
                  [] pr.pc = "failed" -> [m0 EXCEPT !.pr.pc = "raised"]
       IN  /\ now' = t
           /\ heap' = m.heap
           /\ attempts' = m.attempts
           /\ events' = IF pr.pc = "hold" THEN Append(events, ev) ELSE events
           /\ procs' = [procs EXCEPT ![p] = [m.pr EXCEPT !.eid = next_eid]]
           /\ next_eid' = next_eid + 1
           /\ phase' = IF pr.pc = "failed" THEN "crashed" ELSE "running"
    /\ UNCHANGED <<calendar, resources, resources_by_type, last, ncalls,
                   current_date, creative_calendar, complexity_matrix, schedule,
                   until, run_no, prev_events>>

\* run(until) returns: the stop event is reached
Stop ==
    /\ phase = "running"
    /\ Runnable = {}
    /\ now' = until
    /\ phase' = "stopped"
    /\ UNCHANGED <<pool_vars, current_date, creative_calendar, complexity_matrix,
                   schedule, until, procs, next_eid, events, attempts, run_no,
                   prev_events>>

\* the same inputs are simulated again by a simulator constructed later
Rerun ==
    /\ phase \in {"stopped", "crashed"}
    /\ run_no < MaxRuns
    /\ \E cd \in NowChoices : cd > current_date /\ current_date' = cd
    /\ heap' = [r \in DOMAIN heap |-> [heap[r] EXCEPT !.assigned_hours = EmptyDict]]
    /\ now' = 0
    /\ procs' = [i \in DOMAIN schedule |-> NewProcess(schedule[i], i)]
    /\ next_eid' = Len(schedule) + 1
    /\ prev_events' = events
    /\ events' = <<>>
    /\ attempts' = {}
    /\ run_no' = run_no + 1
    /\ phase' = "running"
    /\ UNCHANGED <<calendar, resources, resources_by_type, last, ncalls,
                   creative_calendar, complexity_matrix, schedule, until>>

SimNext == Launch \/ Step \/ Stop \/ Rerun

PoolNext == AddResource \/ AddVacation \/ AllocateResource \/ AssignWork

Next == PoolNext \/ SimNext

Spec == Init /\ [][Next]_vars

\* ------------------------------------------------------------- properties
AllDates(hp) == UNION {DOMAIN hp[r].assigned_hours : r \in DOMAIN hp}

events_of(item, stage) ==
    {i \in DOMAIN events : events[i].item_id = item /\ events[i].stage = stage}

\* C1: in every reachable state, whatever the sequence of assign_work and
\* allocate_resource calls and whatever the interleaving of the item processes,
\* the hours committed to any resource on any date are at most 8.
CapacityInvariant ==
    \A r \in DOMAIN heap : \A d \in DOMAIN heap[r].assigned_hours :
        heap[r].assigned_hours[d] <= Capacity

\* a process was refused a resource that already holds hours on that date and
\* could not take the requested hours on top of them
CapacityWitness ==
    /\ phase = "running"
    /\ \E a \in attempts : \E r \in DOMAIN heap :
          /\ a.ret = 0
          /\ get(heap[r].assigned_hours, a.at) > 0
          /\ get(heap[r].assigned_hours, a.at) + a.hours > Capacity

\* the stages of every scheduled item can obtain a resource on some day: the
\* bid fits the daily capacity, a resource of the stage's type is registered
\* and the calendar has working days
NoPermanentDeadlock ==
    \A i \in DOMAIN schedule : \A k \in DOMAIN stage_order :
        /\ bid_hours(stage_order[k], complexity_matrix[schedule[i]]) <= Capacity
        /\ bucket(resources_by_type, stages[stage_order[k]].resource_type) # <<>>
        /\ calendar.work_days # {}

\* C2: when no stage is permanently blocked and the horizon is long enough for
\* every process to finish, the run ends with one event for every stage of
\* every scheduled item (items x stages events).
AllStagesCompleted ==
    (/\ phase = "stopped"
     /\ NoPermanentDeadlock
     /\ \A p \in DOMAIN procs : procs[p].pc = "done")
    => /\ Len(events) = Len(schedule) * Len(stage_order)
       /\ \A i \in DOMAIN schedule : \A k \in DOMAIN stage_order :
              Cardinality(events_of(schedule[i], stage_order[k])) = 1

\* C3: every event stands for a stage whose resource was obtained (the request
\* was granted and the hours are booked on the resource) and whose whole hold
\* has elapsed before the horizon; a stage in progress or refused a resource
\* has no event; no (item, stage) pair has two events.
EventsOnlyForCompletedStages ==
    /\ \A i \in DOMAIN events :
         LET e == events[i]
         IN  /\ \E a \in attempts :
                   /\ a.item = e.item_id /\ a.stage = e.stage
                   /\ a.at = e.start_time
                   /\ a.ret \in DOMAIN heap
                   /\ heap[a.ret].name = e.resource
                   /\ get(heap[a.ret].assigned_hours, a.at) >= a.hours
                   /\ e.end_time - e.start_time = hold_time(a.hours) * DaySeconds
             /\ e.end_time <= timestamp(now)
             /\ e.end_time < timestamp(until)
             /\ events_of(e.item_id, e.stage) = {i}
    /\ \A p \in DOMAIN procs :
         procs[p].pc = "hold" => events_of(procs[p].item, procs[p].stage) = {}
    /\ \A a \in attempts : a.ret = 0 => events_of(a.item, a.stage) = {}

\* the run stopped at its horizon with one stage recorded, one stage still
\* held and one stage that was refused a resource
EventsWitness ==
    /\ phase = "stopped"
    /\ events # <<>>
    /\ \E p \in DOMAIN procs : procs[p].pc = "hold"
    /\ \E a \in attempts : a.ret = 0

\* C4: the events of an item follow the stage order of the workflow, and a
\* stage of an item ends no later than the item's next recorded stage starts.
StagesInOrder ==
    \A i, j \in DOMAIN events :
        (i < j /\ events[i].item_id = events[j].item_id)
        => /\ stage_index(events[i].stage) < stage_index(events[j].stage)
           /\ events[i].end_time <= events[j].start_time

\* an item with an event for each of the three stages, next to another item
StagesWitness ==
    /\ Len(schedule) > 1
    /\ \E i \in DOMAIN schedule : \A k \in DOMAIN stage_order :
          events_of(schedule[i], stage_order[k]) # {}

\* C5: no event of an item starts before the creative-input date of the item.
NoStartBeforeCreativeInput ==
    \A i \in DOMAIN events :
        events[i].start_time >= creative_calendar[events[i].item_id]

\* an item whose creative-input date lies after the construction of the
\* simulator has waited and has an event
CreativeInputWitness ==
    \E i \in DOMAIN events :
        /\ events[i].stage = stage_order[1]
        /\ creative_calendar[events[i].item_id] > current_date

\* C6: a second run on the same parameters, pool, items and horizon yields the
\* event sequence of the first run.
RunsReproducible ==
    (run_no >= 2 /\ phase = "stopped") => events = prev_events

\* C7: the time between the start and the end of an event, in simulated days,
\* is the bid hour count of the stage for the item's complexity level.
DurationIsBidDays ==
    \A i \in DOMAIN events :
        events[i].end_time - events[i].start_time =
            bid_hours(events[i].stage, complexity_matrix[events[i].item_id])
                * DaySeconds

\* C8: allocate_resource returns the first resource of the type's bucket, in
\* registration order, that is available for the date and hours, and adds the
\* hours to that resource on that date and to nothing else; it returns None
\* and changes nothing iff no resource of the bucket is available.
FirstFitAllocation ==
    [][(last'.op = "allocate_resource" /\ ncalls' = ncalls + 1) =>
        LET d == last'.date
            h == last'.hours
            bkt == bucket(resources_by_type, last'.key)
            avail == {i \in DOMAIN bkt : is_available(heap[bkt[i]], calendar, d, h)}
        IN  IF avail = {}
            THEN last'.ret = 0 /\ heap' = heap
            ELSE \E i \in avail :
                   /\ \A j \in avail : i <= j
                   /\ last'.ret = bkt[i]
                   /\ DOMAIN heap' = DOMAIN heap
                   /\ \A r \in DOMAIN heap : \A x \in AllDates(heap) \cup {d} :
                        get(heap'[r].assigned_hours, x) =
                          get(heap[r].assigned_hours, x)
                            + (IF r = bkt[i] /\ x = d THEN h ELSE 0)
                   /\ \A r \in DOMAIN heap :
                        DOMAIN heap'[r].assigned_hours \subseteq AllDates(heap) \cup {d}
      ]_vars

\* the second resource of a bucket was allocated: the first one was full
FirstFitWitness ==
    /\ last.op = "allocate_resource"
    /\ last.ret # 0
    /\ Len(bucket(resources_by_type, last.key)) > 1
    /\ last.ret # bucket(resources_by_type, last.key)[1]

\* C9 (as claimed): of two successive identical allocate_resource calls with
\* exactly one resource available to the first, the first succeeds and the
\* second returns None.
SecondAllocationFails ==
    [][(last'.op = "allocate_resource" /\ ncalls' = ncalls + 1 /\ last'.rep)
        => (last.ret # 0 /\ last'.ret = 0)]_vars

\* C9 (amended): of two successive identical allocate_resource calls with
\* exactly one resource available to the first, the first succeeds, and the
\* second returns None exactly when the hours that resource holds on the date
\* after the first call, plus the requested hours, exceed 8; otherwise the
\* second call returns the same resource.
SecondAllocationFailsWhenFull ==
    [][(last'.op = "allocate_resource" /\ ncalls' = ncalls + 1 /\ last'.rep)
        => /\ last.ret # 0
           /\ last'.ret \in {0, last.ret}
           /\ last'.ret = 0 <=>
                get(heap[last.ret].assigned_hours, last.date) + last.hours > Capacity
      ]_vars

\* a repeated call was refused after the first one took the only resource
SecondAllocationWitness ==
    /\ last.op = "allocate_resource"
    /\ last.rep
    /\ last.ret = 0

\* C10: add_resource with an id that is already registered fails with a
\* duplicate-id error and leaves the id index and the type index unchanged.
DuplicateIdRejected ==
    [][(last'.op = "add_resource" /\ last' # last /\ last'.key \in DOMAIN resources)
        => /\ last'.err = "DuplicateIdError"
           /\ resources' = resources
           /\ resources_by_type' = resources_by_type]_vars

\* the Resource objects reachable through the type index, and through the id
\* index
by_type_objects ==
    UNION {{resources_by_type[t][i] : i \in DOMAIN resources_by_type[t]} :
              t \in DOMAIN resources_by_type}

by_id_objects == {resources[id] : id \in DOMAIN resources}

\* C11: after any sequence of add_resource calls, the resources reachable
\* through the type index are the resources of the id index, and every
\* resource is in exactly one type bucket, exactly once.
IndexesAgree ==
    /\ by_type_objects = by_id_objects
    /\ \A r \in by_id_objects :
          Cardinality({<<t, i>> \in UNION {{<<u, j>> : j \in DOMAIN resources_by_type[u]} :
                                              u \in DOMAIN resources_by_type} :
                          resources_by_type[t][i] = r}) = 1

\* C12: assign_work(date, hours) on a resource that is not available (the date
\* is not a working day, or falls in a vacation of the resource, or the load of
\* the date plus the hours exceeds 8) fails with an error and leaves the hours
\* of every date as they were; otherwise it adds exactly the hours to the load
\* of the date and leaves every other date, and every other resource, alone.
AssignWorkChecksAvailability ==
    [][(last'.op = "assign_work" /\ ncalls' = ncalls + 1) =>
        LET r == last'.ret
            d == last'.date
            h == last'.hours
            refused == \/ weekday(d) \notin calendar.work_days
                       \/ d \in calendar.holidays
                       \/ \E i \in DOMAIN calendar.vacations :
                             calendar.vacations[i][1] <= d /\ d <= calendar.vacations[i][2]
                       \/ \E i \in DOMAIN heap[r].vacations :
                             heap[r].vacations[i][1] <= d /\ d <= heap[r].vacations[i][2]
                       \/ get(heap[r].assigned_hours, d) + h > Capacity
        IN  /\ \A q \in DOMAIN heap : q # r => heap'[q] = heap[q]
            /\ DOMAIN heap' = DOMAIN heap
            /\ IF refused
               THEN /\ last'.err = "ValueError"
                    /\ heap'[r] = heap[r]
               ELSE /\ last'.err = None
                    /\ get(heap'[r].assigned_hours, d) = get(heap[r].assigned_hours, d) + h
                    /\ \A e \in (DOMAIN heap[r].assigned_hours
                                   \cup DOMAIN heap'[r].assigned_hours) \ {d} :
                          get(heap'[r].assigned_hours, e) = get(heap[r].assigned_hours, e)
                    /\ heap'[r].vacations = heap[r].vacations]_vars

\* assign_work was refused on a working day because of the hours the resource
\* already holds on the date
AssignWorkWitness ==
    /\ last.op = "assign_work"
    /\ last.err = "ValueError"
    /\ is_workday(calendar, last.date)
    /\ get(heap[last.ret].assigned_hours, last.date) > last.hours

\* the date ranges get_utilization is asked about: one working day, a week end,
\* a working week, a range from a Saturday to the Monday after it, and a range
\* whose end is before its start
UtilizationRanges ==
    {<<Monday, Monday>>, <<Saturday, Saturday + DaySeconds>>,
     <<Monday, Saturday>>, <<Saturday, Saturday + 2 * DaySeconds>>,
     <<Saturday, Monday>>}

\* C13: get_utilization returns a ratio between 0 and 1, for every pool that
\* add_resource and allocate_resource can build, with resources of quota and
\* of other types, and for every date range.
UtilizationWithinUnit ==
    \A range \in UtilizationRanges :
        LET u == get_utilization(ThePool, calendar, range[1], range[2])
        IN  /\ u[2] > 0
            /\ 0 <= u[1]
            /\ u[1] <= u[2]

\* the days of a range, as the loop of get_utilization steps through them
days_of(range) ==
    {d \in {range[1] + k * DaySeconds : k \in 0..7} : d <= range[2]}

\* C14: get_utilization returns exactly 0, and divides by nothing, when the
\* pool has no resource of type quota or the range has no working day,
\* whatever the hours assigned.
UtilizationZeroWithoutCapacity ==
    \A range \in UtilizationRanges :
        (\/ bucket(resources_by_type, "quota") = <<>>
         \/ \A d \in days_of(range) :
               \/ weekday(d) \notin calendar.work_days
               \/ d \in calendar.holidays
               \/ in_interval(d, calendar.vacations))
        => get_utilization(ThePool, calendar, range[1], range[2]) = <<0, 1>>

\* a pool without quota resources whose support resource holds hours on a
\* working day of a range
UtilizationZeroWitness ==
    /\ bucket(resources_by_type, "quota") = <<>>
    /\ \E id \in DOMAIN resources :
          get(heap[resources[id]].assigned_hours, Monday) > 0
    /\ is_workday(calendar, Monday)
    /\ <<Monday, Monday>> \in UtilizationRanges

\* the dates is_workday is asked about: the midnights of a week, with the
\* holiday and both ends of the vacation of HolidayCalendar among them, and
\* times next to them
CalendarDates ==
    {k * DaySeconds : k \in 0..6}
      \cup {Tuesday + 1, 2 * DaySeconds - 1, 3 * DaySeconds + 1}

\* the calendar marks date as not working, in the words of the claim
non_working(date) ==
    \/ weekday(date) \notin calendar.work_days
    \/ date \in calendar.holidays
    \/ \E i \in DOMAIN calendar.vacations :
          /\ calendar.vacations[i][1] <= date
          /\ date <= calendar.vacations[i][2]

\* C15: is_workday(d) is true exactly when the weekday of d is a work day of
\* the calendar, d is not a holiday and d is in no vacation interval, both ends
\* of an interval included; so is_available(d, h) is false on every date the
\* calendar marks as not working, whatever the load of the resource.
WorkdayDefinition ==
    \A d \in CalendarDates :
        /\ is_workday(calendar, d) <=> ~non_working(d)
        /\ non_working(d) =>
              \A res \in {heap[r] : r \in DOMAIN heap} : \A h \in {0, 1, Capacity} :
                  ~is_available(res, calendar, d, h)

\* a process asked for a resource at a time inside a vacation of the calendar
\* and was refused although a resource of the type holds no hours at that time
WorkdayWitness ==
    \E a \in attempts :
        /\ a.ret = 0
        /\ weekday(a.at) \in calendar.work_days
        /\ a.at \notin calendar.holidays
        /\ non_working(a.at)
        /\ \E r \in DOMAIN heap :
              /\ heap[r].resource_type = stages[a.stage].resource_type
              /\ get(heap[r].assigned_hours, a.at) = 0

\* C16: when the allocation of a stage returns no resource and the resolver
\* reports a resolution, the process asks again for the same stage at the same
\* simulated time: its stage cursor has not moved and the clock has not
\* advanced when it yields next.
RefusedStageRetried ==
    [][\A p \in DOMAIN procs : \A a \in attempts' \ attempts :
          (/\ a.item = procs[p].item
           /\ a.ret = 0
           /\ resolve_conflict(a.item, a.stage))
          => /\ procs'[p].stage = a.stage
             /\ timestamp(now') = a.at]_vars

\* resource has free capacity at the time date
free_at(res, date) ==
    /\ is_workday(calendar, date)
    /\ ~in_interval(date, res.vacations)
    /\ get(res.assigned_hours, date) < Capacity

\* C17: resolve_conflict reports a resolution only if a pending task of the
\* stalled stage was matched to a registered resource of the stage's type that
\* is available at the current simulated time, one task per resource and one
\* resource per task; with no resource of the type available it reports none.
ResolutionNeedsMatch ==
    [][\A a \in attempts' \ attempts :
          (a.ret = 0 /\ resolve_conflict(a.item, a.stage)) =>
             /\ \E i \in DOMAIN pending_tasks(a.stage) :
                   LET task == pending_tasks(a.stage)[i].asset_id
                   IN  /\ task \in DOMAIN solve_min_cost_flow
                       /\ solve_min_cost_flow[task] \in DOMAIN resources
                       /\ LET res == heap[resources[solve_min_cost_flow[task]]]
                          IN  /\ res.resource_type = stages[a.stage].resource_type
                              /\ free_at(res, a.at)
             /\ \A t1, t2 \in DOMAIN solve_min_cost_flow :
                   solve_min_cost_flow[t1] = solve_min_cost_flow[t2] => t1 = t2]_vars

\* C19: the first allocation request of an item is made at the simulated time
\* of its creative-input date: when that date is not before the start date of
\* the simulation, the timestamp passed to the first allocate_resource call is
\* the creative-input date.
FirstRequestAtCreativeDate ==
    \A a \in attempts :
        (a.stage = stage_order[1] /\ creative_calendar[a.item] >= current_date)
        => a.at = creative_calendar[a.item]

\* the position of item in the list given to schedule_production
registration(item) == CHOOSE i \in DOMAIN schedule : schedule[i] = item

\* C18: processes that ask for a resource of the same type at the same
\* simulated timestamp are served in the order of their registration in
\* schedule_production: when only one of them can be allocated at that
\* timestamp, it is the one registered earliest, at every timestamp of the run.
ServedInRegistrationOrder ==
    \A a, b \in attempts :
        (/\ a.at = b.at
         /\ stages[a.stage].resource_type = stages[b.stage].resource_type
         /\ registration(a.item) < registration(b.item)
         /\ a.ret = 0
         /\ b.ret # 0)
        => get(heap[b.ret].assigned_hours, a.at) - b.hours + a.hours > Capacity

\* C20: the event list is in completion order: at every point of a run the
\* end timestamps of the events do not decrease along the list, whatever the
\* number of concurrent items, and the simulated clock of a run never moves
\* backwards.
EventsInCompletionOrder ==
    [][/\ \A i, j \in DOMAIN events' :
             i < j => events'[i].end_time <= events'[j].end_time
       /\ run_no' = run_no => now' >= now]_vars

\* two concurrent items: an event that started later than the event of the
\* other item was completed, and listed, before it
CompletionOrderWitness ==
    \E i, j \in DOMAIN events :
        /\ i < j
        /\ events[i].item_id # events[j].item_id
        /\ events[i].start_time > events[j].start_time
        /\ events[i].end_time < events[j].end_time

\* C21: run(until) ends, for every horizon and every list of scheduled items,
\* when the simulated time reaches until or no process has a pending event,
\* and then every process is complete or suspended at one of its suspension
\* points (the wait for the creative input, the hold of a stage, the wait of a
\* day after a refusal).
RunEndsAtHorizonOrQuiescence ==
    phase \notin {"setup", "running"} =>
        /\ now = until \/ Pending = {}
        /\ \A p \in DOMAIN procs :
              procs[p].pc \in {"done", "wait_input", "hold", "stalled"}

RECURSIVE hours_in_progress(_, _)

\* the bid hours of the stages the processes of ps hold on the resource r:
\* allocated, and the timeout of the stage not yet elapsed
hours_in_progress(r, ps) ==
    IF ps = {}
    THEN 0
    ELSE LET p == CHOOSE q \in ps : TRUE
         IN  (IF procs[p].pc = "hold" /\ procs[p].res = r
              THEN bid_hours(procs[p].stage, complexity_matrix[procs[p].item])
              ELSE 0)
               + hours_in_progress(r, ps \ {p})

\* C22: at every simulated time of a run, the bid hours of the stages in
\* progress on a resource add up to at most 8: a resource that still holds a
\* stage started on an earlier simulated day is not given to another item
\* beyond its capacity.
InProgressWithinCapacity ==
    \A r \in DOMAIN heap : hours_in_progress(r, DOMAIN procs) <= Capacity

====
